---- MODULE Spec2Model ----
(***************************************************************************)
(* Model of the Modsecurity middleware (src/modsecurity.go): the gate that *)
(* mirrors every inbound request to a decision service and, from the       *)
(* verdict status and the error policy, relays the verdict, writes an      *)
(* error status or invokes the upstream handler (next).                    *)
(*                                                                         *)
(* One ServeHTTP invocation is a small state machine per request id; its   *)
(* steps are cut at the points where the code waits on something outside   *)
(* the gate: the inbound body, the verdict call, the verdict body and the  *)
(* upstream handler.  Bytes are numbers, header maps are functions from a  *)
(* set of names to sequences of values, a ResponseWriter is a record that  *)
(* follows net/http (the first WriteHeader wins, a Write before it implies *)
(* WriteHeader(200), the headers are snapshotted when the status is        *)
(* written).                                                               *)
(***************************************************************************)
EXTENDS Integers, Sequences, FiniteSets, TLC

\* ------------------------------------------------------------------ bounds
\* longest inbound body, in bytes
MaxLen == 3
\* number of request ids (ServeHTTP invocations) the state has room for
NumRequests == 3

Requests == 1..NumRequests

\* -------------------------------------------------------- program constants
StatusOK == 200
StatusRequestEntityTooLarge == 413
StatusBadGateway == 502
\* "\n", the byte fmt.Fprintln appends in http.Error
Newline == 10

\* ------------------------------------------------------------- header maps
EmptyHeader == [k \in {} |-> <<>>]

MapSet(m, k, v) == [x \in (DOMAIN m) \cup {k} |-> IF x = k THEN v ELSE m[x]]

MapDel(m, k) == [x \in (DOMAIN m) \ {k} |-> m[x]]

\* m[k] of a Go map: the zero value (nil slice) when the key is absent
MapGet(m, k) == IF k \in DOMAIN m THEN m[k] ELSE <<>>

\* textproto.CanonicalMIMEHeaderKey on the names the model uses
CanonicalHeaderKey(k) ==
  CASE k = "x-waf" -> "X-Waf"
    [] k = "content-type" -> "Content-Type"
    [] OTHER -> k

\* ---------------------------------------------------------- ResponseWriter
\* header: the mutable header map; status: 0 until WriteHeader; sent: the
\* headers as they were when the status was written; body: bytes written.
NewResponseWriter == [header |-> EmptyHeader, status |-> 0, sent |-> EmptyHeader, body |-> <<>>]

CallSet(k, v) == [op |-> "Set", key |-> k, val |-> v, code |-> 0, data |-> <<>>]
CallDel(k) == [op |-> "Del", key |-> k, val |-> "", code |-> 0, data |-> <<>>]
CallWriteHeader(c) == [op |-> "WriteHeader", key |-> "", val |-> "", code |-> c, data |-> <<>>]
CallWrite(d) == [op |-> "Write", key |-> "", val |-> "", code |-> 0, data |-> d]

RwWriteHeader(w, code) ==
  IF w.status # 0 THEN w ELSE [w EXCEPT !.status = code, !.sent = w.header]

RwWrite(w, d) ==
  LET w1 == RwWriteHeader(w, StatusOK) IN [w1 EXCEPT !.body = @ \o d]

ApplyCall(w, c) ==
  CASE c.op = "Set" -> [w EXCEPT !.header = MapSet(@, CanonicalHeaderKey(c.key), <<c.val>>)]
    [] c.op = "Del" -> [w EXCEPT !.header = MapDel(@, CanonicalHeaderKey(c.key))]
    [] c.op = "WriteHeader" -> RwWriteHeader(w, c.code)
    [] c.op = "Write" -> RwWrite(w, c.data)

RECURSIVE ApplyCalls(_, _)
ApplyCalls(w, cs) ==
  IF cs = <<>> THEN w ELSE ApplyCalls(ApplyCall(w, Head(cs)), Tail(cs))

\* http.Error(w, error, code), error being a sequence of bytes
HttpErrorCalls(error, code) ==
  << CallDel("Content-Length"),
     CallSet("Content-Type", "text/plain; charset=utf-8"),
     CallSet("X-Content-Type-Options", "nosniff"),
     CallWriteHeader(code),
     CallWrite(error \o <<Newline>>) >>

\* ------------------------------------------------------- forwardResponse
\* rw.Header().Set(k, v) for every v of vv, in the order of vv
RECURSIVE SetCalls(_, _)
SetCalls(k, vv) ==
  IF vv = <<>> THEN <<>> ELSE <<CallSet(k, Head(vv))>> \o SetCalls(k, Tail(vv))

\* the outer range loop over resp.Header, keys visited in the order `order`
RECURSIVE CopyHeaderCalls(_, _)
CopyHeaderCalls(header, order) ==
  IF order = <<>> THEN <<>>
  ELSE SetCalls(Head(order), header[Head(order)]) \o CopyHeaderCalls(header, Tail(order))

\* io.Copy(rw, resp.Body): no Write call for an empty body
CopyBodyCalls(b) == IF b = <<>> THEN <<>> ELSE <<CallWrite(b)>>

\* forwardResponse writing the status before it copies the headers
ForwardResponseStatusFirst(rsp, order) ==
  <<CallWriteHeader(rsp.status)>> \o CopyHeaderCalls(rsp.header, order) \o CopyBodyCalls(rsp.body)

\* the calls forwardResponse makes on rw
ForwardResponseCalls(rsp, order) ==
  CopyHeaderCalls(rsp.header, order) \o <<CallWriteHeader(rsp.status)>> \o CopyBodyCalls(rsp.body)

\* the iteration orders Go may pick for a map
MapOrders(m) ==
  {f \in [1..Cardinality(DOMAIN m) -> DOMAIN m] : \A k \in DOMAIN m : \E i \in DOMAIN f : f[i] = k}

\* ----------------------------------------------------------------- inputs
\* the inbound body of n bytes: byte i is 64 + i, so that a prefix, a suffix
\* and the whole body differ
BodyOf(n) == [i \in 1..n |-> 64 + i]

\* how the inbound body stream ends once its bytes are delivered
StreamEnds == {"EOF", "error", "panic"}

Streams == [bytes : {BodyOf(n) : n \in 0..MaxLen}, end : StreamEnds]

Methods == {"GET", "POST"}

\* "*" (OPTIONS *) appended to the base URL does not parse as a URL
RequestURIs == {"/a?x=1", "*"}

InboundHeaders ==
  { EmptyHeader,
    [Upgrade |-> <<"websocket">>],
    [Upgrade |-> <<"WebSocket">>],
    [Upgrade |-> <<"h2c", "websocket">>, Cookie |-> <<"a", "b">>],
    [Cookie |-> <<"b", "a", "b">>, Accept |-> <<"x">>] }

InboundRequests ==
  [method : Methods, requestURI : RequestURIs, header : InboundHeaders, stream : Streams]

\* a request id that is not in use
IdleRequest ==
  [method |-> "GET", requestURI |-> "/a?x=1", header |-> EmptyHeader,
   stream |-> [bytes |-> <<>>, end |-> "EOF"]]

BaseURLs == {"http://waf:8080"}

Configs ==
  [modSecurityUrl : BaseURLs, maxBodySize : 1..(MaxLen - 1),
   interruptOnError : BOOLEAN, ignore500Error : BOOLEAN]

\* verdict responses of the decision service, as http.Client.Do returns them
\* (status of three digits, canonical header names, every name with values)
VerdictStatuses == {200, 399, 400, 403, 499, 500, 503}

VerdictHeaders ==
  { EmptyHeader,
    [Server |-> <<"waf">>],
    [Server |-> <<"waf">>, Via |-> <<"a", "b">>] }

VerdictBodies == {<<>>, <<98, 108>>}

Verdicts == [status : VerdictStatuses, header : VerdictHeaders, body : VerdictBodies]

NoResponse == [status |-> 0, header |-> EmptyHeader, body |-> <<>>]

\* Do returning an error instead of a response (refused, timed out after the
\* 2 seconds of httpClient)
TransportFailure == [status |-> -1, header |-> EmptyHeader, body |-> <<>>]

\* everything the decision service may do with a mirrored request
Outcomes == Verdicts \cup {TransportFailure}

NoRequest == [method |-> "", url |-> <<>>, header |-> EmptyHeader, body |-> <<>>, pos |-> 0]

\* what the upstream handler writes when it answers
UpstreamCalls == <<CallWriteHeader(StatusOK), CallWrite(<<117>>)>>

\* ------------------------------------------------------------------ state
VARIABLES
  gate,        \* the Modsecurity instance: the fields New sets from the Config
  service,     \* per request: what the decision service may answer to its mirrored request
  pc,          \* per request: where its ServeHTTP invocation stands
  req,         \* per request: the inbound request (method, URI, headers, body stream)
  origPos,     \* per request: bytes consumed so far from the original body stream
  gateRead,    \* per request: how many of them the gate itself consumed
  reqBody,     \* per request: what req.Body refers to, "orig" or "buf" (line 97)
  bufPos,      \* per request: read position of the reader assigned at line 97
  body,        \* per request: the bytes ioutil.ReadAll returned
  proxyReq,    \* per request: the outbound request built at lines 100..114
  sent,        \* per request: number of httpClient.Do calls
  resp,        \* per request: the verdict response
  rw,          \* per request: the client's ResponseWriter
  gateW,       \* per request: the calls the gate itself made on rw
  calls,       \* per request: the invocations of next.ServeHTTP, with the body each could read
  log,         \* per request: the lines the invocation sent to the logger
  recovering   \* per request: the deferred recover function is running

vars == <<gate, service, pc, req, origPos, gateRead, reqBody, bufPos, body, proxyReq, sent, resp,
          rw, gateW, calls, log, recovering>>

\* the locals of one invocation as a record, and its write-back
St(r) ==
  [pc |-> pc[r], req |-> req[r], origPos |-> origPos[r], gateRead |-> gateRead[r],
   reqBody |-> reqBody[r],
   bufPos |-> bufPos[r], body |-> body[r], proxyReq |-> proxyReq[r], sent |-> sent[r],
   resp |-> resp[r], rw |-> rw[r], gateW |-> gateW[r], calls |-> calls[r],
   log |-> log[r], recovering |-> recovering[r]]

\* the write-back with the verdict response kept in a field of the shared
\* instance instead of a local of the invocation
PutSharedResp(r, s) ==
  /\ pc' = [pc EXCEPT ![r] = s.pc]
  /\ req' = [req EXCEPT ![r] = s.req]
  /\ origPos' = [origPos EXCEPT ![r] = s.origPos]
  /\ gateRead' = [gateRead EXCEPT ![r] = s.gateRead]
  /\ reqBody' = [reqBody EXCEPT ![r] = s.reqBody]
  /\ bufPos' = [bufPos EXCEPT ![r] = s.bufPos]
  /\ body' = [body EXCEPT ![r] = s.body]
  /\ proxyReq' = [proxyReq EXCEPT ![r] = s.proxyReq]
  /\ sent' = [sent EXCEPT ![r] = s.sent]
  /\ resp' = [q \in Requests |-> s.resp]
  /\ rw' = [rw EXCEPT ![r] = s.rw]
  /\ gateW' = [gateW EXCEPT ![r] = s.gateW]
  /\ calls' = [calls EXCEPT ![r] = s.calls]
  /\ log' = [log EXCEPT ![r] = s.log]
  /\ recovering' = [recovering EXCEPT ![r] = s.recovering]
  /\ UNCHANGED <<gate, service>>

\* the write-back with the captured body kept in a field of the shared instance
PutSharedBody(r, s) ==
  /\ pc' = [pc EXCEPT ![r] = s.pc]
  /\ req' = [req EXCEPT ![r] = s.req]
  /\ origPos' = [origPos EXCEPT ![r] = s.origPos]
  /\ gateRead' = [gateRead EXCEPT ![r] = s.gateRead]
  /\ reqBody' = [reqBody EXCEPT ![r] = s.reqBody]
  /\ bufPos' = [bufPos EXCEPT ![r] = s.bufPos]
  /\ body' = [q \in Requests |-> s.body]
  /\ proxyReq' = [proxyReq EXCEPT ![r] = s.proxyReq]
  /\ sent' = [sent EXCEPT ![r] = s.sent]
  /\ resp' = [resp EXCEPT ![r] = s.resp]
  /\ rw' = [rw EXCEPT ![r] = s.rw]
  /\ gateW' = [gateW EXCEPT ![r] = s.gateW]
  /\ calls' = [calls EXCEPT ![r] = s.calls]
  /\ log' = [log EXCEPT ![r] = s.log]
  /\ recovering' = [recovering EXCEPT ![r] = s.recovering]
  /\ UNCHANGED <<gate, service>>

Put(r, s) ==
  /\ pc' = [pc EXCEPT ![r] = s.pc]
  /\ req' = [req EXCEPT ![r] = s.req]
  /\ origPos' = [origPos EXCEPT ![r] = s.origPos]
  /\ gateRead' = [gateRead EXCEPT ![r] = s.gateRead]
  /\ reqBody' = [reqBody EXCEPT ![r] = s.reqBody]
  /\ bufPos' = [bufPos EXCEPT ![r] = s.bufPos]
  /\ body' = [body EXCEPT ![r] = s.body]
  /\ proxyReq' = [proxyReq EXCEPT ![r] = s.proxyReq]
  /\ sent' = [sent EXCEPT ![r] = s.sent]
  /\ resp' = [resp EXCEPT ![r] = s.resp]
  /\ rw' = [rw EXCEPT ![r] = s.rw]
  /\ gateW' = [gateW EXCEPT ![r] = s.gateW]
  /\ calls' = [calls EXCEPT ![r] = s.calls]
  /\ log' = [log EXCEPT ![r] = s.log]
  /\ recovering' = [recovering EXCEPT ![r] = s.recovering]
  /\ UNCHANGED <<gate, service>>

\* New: the instance exists only for a non-empty URL, its fields are the Config's
New(config) ==
  [modSecurityUrl |-> config.modSecurityUrl, maxBodySize |-> config.maxBodySize,
   interruptOnError |-> config.interruptOnError, ignore500Error |-> config.ignore500Error]

\* the state of an invocation before ServeHTTP runs
Fresh(rq, p) ==
  [pc |-> p, req |-> rq, origPos |-> 0, gateRead |-> 0, reqBody |-> "orig", bufPos |-> 0, body |-> <<>>,
   proxyReq |-> NoRequest, sent |-> 0, resp |-> NoResponse, rw |-> NewResponseWriter,
   gateW |-> <<>>, calls |-> <<>>, log |-> <<>>, recovering |-> FALSE]

\* the per-request variables set from f, a function from request ids to
\* the state of an invocation
Starts(f) ==
  /\ pc = [r \in Requests |-> f[r].pc]
  /\ req = [r \in Requests |-> f[r].req]
  /\ origPos = [r \in Requests |-> f[r].origPos]
  /\ gateRead = [r \in Requests |-> f[r].gateRead]
  /\ reqBody = [r \in Requests |-> f[r].reqBody]
  /\ bufPos = [r \in Requests |-> f[r].bufPos]
  /\ body = [r \in Requests |-> f[r].body]
  /\ proxyReq = [r \in Requests |-> f[r].proxyReq]
  /\ sent = [r \in Requests |-> f[r].sent]
  /\ resp = [r \in Requests |-> f[r].resp]
  /\ rw = [r \in Requests |-> f[r].rw]
  /\ gateW = [r \in Requests |-> f[r].gateW]
  /\ calls = [r \in Requests |-> f[r].calls]
  /\ log = [r \in Requests |-> f[r].log]
  /\ recovering = [r \in Requests |-> f[r].recovering]

\* one request in flight, the other ids idle; the decision service is free
Init ==
  /\ gate \in {New(c) : c \in Configs}
  /\ service = [r \in Requests |-> Outcomes]
  /\ \E rq \in InboundRequests :
       Starts([r \in Requests |-> IF r = 1 THEN Fresh(rq, "start") ELSE Fresh(IdleRequest, "idle")])

\* requests and answers for the runs with several invocations in flight: a
\* small body under a limit of one byte, a body over it, a websocket request;
\* the decision service blocks, allows or cannot be reached
ConcRequests ==
  { [method |-> "POST", requestURI |-> "/a?x=1", header |-> EmptyHeader,
     stream |-> [bytes |-> BodyOf(1), end |-> "EOF"]],
    [method |-> "POST", requestURI |-> "/a?x=1", header |-> EmptyHeader,
     stream |-> [bytes |-> BodyOf(2), end |-> "EOF"]],
    [method |-> "GET", requestURI |-> "/a?x=1", header |-> [Upgrade |-> <<"websocket">>],
     stream |-> [bytes |-> <<>>, end |-> "EOF"]] }

ConcOutcomes ==
  { [status |-> 403, header |-> [Server |-> <<"waf">>], body |-> <<98, 108>>],
    [status |-> 200, header |-> EmptyHeader, body |-> <<>>],
    TransportFailure }

\* what one invocation of such a run starts from: its request and the one
\* answer the decision service has for it
ConcScenarios ==
  { sc \in [req : ConcRequests, outcome : ConcOutcomes] :
      \/ sc.req.header = EmptyHeader /\ Len(sc.req.stream.bytes) = 1
      \/ sc.outcome = TransportFailure }

ConcConfigs == {c \in Configs : c.maxBodySize = 1 /\ ~c.ignore500Error}

\* three invocations in flight on one instance: 1 and 2 with the same request
\* and the same answer of the decision service, 3 with any; further ids idle
InitConc ==
  /\ gate \in {New(c) : c \in ConcConfigs}
  /\ \E same \in ConcScenarios, other \in ConcScenarios :
       LET sc(r) == IF r = 3 THEN other ELSE same
       IN /\ service = [r \in Requests |-> IF r <= 3 THEN {sc(r).outcome} ELSE Outcomes]
          /\ Starts([r \in Requests |-> IF r <= 3 THEN Fresh(sc(r).req, "start")
                                                   ELSE Fresh(IdleRequest, "idle")])

\* ------------------------------------------------------------ the pipeline
\* the gate calls cs on rw
GateWrites(s, cs) == [s EXCEPT !.rw = ApplyCalls(@, cs), !.gateW = @ \o cs]

\* what a reader of req.Body gets from now on
Unread(s) ==
  IF s.reqBody = "orig"
  THEN SubSeq(s.req.stream.bytes, s.origPos + 1, Len(s.req.stream.bytes))
  ELSE SubSeq(s.body, s.bufPos + 1, Len(s.body))

\* a.next.ServeHTTP(rw, req), called at source line `site`
CallNext(s, site) ==
  [s EXCEPT !.pc = "next", !.calls = Append(@, [site |-> site, body |-> Unread(s)])]

\* handleError without the else: next is invoked after the error status too
handleErrorFallThrough(s, errorMessage, code) ==
  LET s1 == [s EXCEPT !.log = @ \o <<errorMessage, "ModSecurity::handleError Request">>]
      s2 == IF gate.interruptOnError
            THEN GateWrites([s1 EXCEPT !.log = Append(@, "ModSecurity::handleError [Interrupt]")],
                            HttpErrorCalls(<<>>, code))
            ELSE [s1 EXCEPT !.log = Append(@, "ModSecurity::handleError [Continue]")]
  IN CallNext(s2, 167)

\* handleError with the test of interruptOnError inverted
handleErrorInverted(s, errorMessage, code) ==
  LET s1 == [s EXCEPT !.log = @ \o <<errorMessage, "ModSecurity::handleError Request">>]
  IN IF ~gate.interruptOnError
     THEN LET s2 == [s1 EXCEPT !.log = Append(@, "ModSecurity::handleError [Interrupt]"),
                                !.pc = "done"]
          IN GateWrites(s2, HttpErrorCalls(<<>>, code))
     ELSE CallNext([s1 EXCEPT !.log = Append(@, "ModSecurity::handleError [Continue]")], 167)

\* handleError: log, then interrupt with http.Error or continue with next
handleError(s, errorMessage, code) ==
  LET s1 == [s EXCEPT !.log = @ \o <<errorMessage, "ModSecurity::handleError Request">>]
  IN IF gate.interruptOnError
     THEN LET s2 == [s1 EXCEPT !.log = Append(@, "ModSecurity::handleError [Interrupt]"),
                                !.pc = "done"]
          IN GateWrites(s2, HttpErrorCalls(<<>>, code))
     ELSE CallNext([s1 EXCEPT !.log = Append(@, "ModSecurity::handleError [Continue]")], 167)

\* the deferred function of ServeHTTP when recover() returns a panic value
Recovered(s) ==
  handleError([s EXCEPT !.recovering = TRUE], "Panic", StatusBadGateway)

\* isWebsocket looking at the first Upgrade value only
isWebsocketFirstValue(rq) ==
  MapGet(rq.header, "Upgrade") # <<>> /\ MapGet(rq.header, "Upgrade")[1] = "websocket"

\* strings.ToLower on the Upgrade values the model uses
ToLower(v) == IF v = "WebSocket" THEN "websocket" ELSE v

\* isWebsocket comparing without regard to case
isWebsocketFold(rq) ==
  \E i \in DOMAIN MapGet(rq.header, "Upgrade") :
    ToLower(MapGet(rq.header, "Upgrade")[i]) = "websocket"

\* isWebsocket
isWebsocket(rq) ==
  \E i \in DOMAIN MapGet(rq.header, "Upgrade") : MapGet(rq.header, "Upgrade")[i] = "websocket"

\* ioutil.ReadAll(http.MaxBytesReader(rw, req.Body, n)): the limited reader asks
\* the stream for at most one byte more than it may still return, and fails
\* once it got that byte
ReadAllMaxBytes(stream, n) ==
  IF Len(stream.bytes) > n
  THEN [data |-> SubSeq(stream.bytes, 1, n), consumed |-> n + 1,
        err |-> "http: request body too large"]
  ELSE [data |-> stream.bytes, consumed |-> Len(stream.bytes),
        err |-> IF stream.end = "EOF" THEN "nil" ELSE stream.end]

\* http.NewRequest fails when the target does not parse
UrlParses(url) == url[2] # "*"

\* lines 111..114
CopyHeader(h) == [k \in DOMAIN h |-> h[k]]

\* lines 78..82
ServeStart(s) ==
  IF isWebsocket(s.req) THEN CallNext(s, 80) ELSE [s EXCEPT !.pc = "capture"]

\* lines 86..94 with the size error not told apart from a read error
ServeCaptureOneError(s) ==
  LET rd == ReadAllMaxBytes(s.req.stream, gate.maxBodySize)
      s1 == [s EXCEPT !.origPos = rd.consumed, !.gateRead = rd.consumed, !.body = rd.data]
  IN CASE rd.err = "nil" -> [s1 EXCEPT !.pc = "prepare"]
       [] rd.err = "panic" -> Recovered(s1)
       [] OTHER -> handleError(s1, "fail to read incoming request", StatusBadGateway)

\* lines 86..94 reading through a plain limit: a body over the limit is cut
\* at the limit and goes on
ServeCaptureTruncates(s) ==
  LET rd == ReadAllMaxBytes(s.req.stream, gate.maxBodySize)
      s1 == [s EXCEPT !.origPos = rd.consumed, !.gateRead = rd.consumed, !.body = rd.data]
  IN CASE rd.err = "nil" -> [s1 EXCEPT !.pc = "prepare"]
       [] rd.err = "http: request body too large" -> [s1 EXCEPT !.pc = "prepare"]
       [] rd.err = "panic" -> Recovered(s1)
       [] OTHER -> handleError(s1, "fail to read incoming request", StatusBadGateway)

\* lines 86..94
ServeCapture(s) ==
  LET rd == ReadAllMaxBytes(s.req.stream, gate.maxBodySize)
      s1 == [s EXCEPT !.origPos = rd.consumed, !.gateRead = rd.consumed, !.body = rd.data]
  IN CASE rd.err = "nil" -> [s1 EXCEPT !.pc = "prepare"]
       [] rd.err = "http: request body too large" ->
            handleError(s1, "body max limit reached", StatusRequestEntityTooLarge)
       [] rd.err = "panic" -> Recovered(s1)
       [] OTHER -> handleError(s1, "fail to read incoming request", StatusBadGateway)

\* lines 97..114 without the reassignment of req.Body at line 97
ServePrepareNoReassign(s) ==
  LET url == <<gate.modSecurityUrl, s.req.requestURI>>
  IN IF ~UrlParses(url)
     THEN handleError(s, "fail to prepare forwarded request", StatusBadGateway)
     ELSE [s EXCEPT !.pc = "send",
                    !.proxyReq = [method |-> s.req.method, url |-> url,
                                  header |-> CopyHeader(s.req.header),
                                  body |-> s.body, pos |-> 0]]

\* lines 97..114
ServePrepare(s) ==
  LET s1 == [s EXCEPT !.reqBody = "buf", !.bufPos = 0]
      url == <<gate.modSecurityUrl, s.req.requestURI>>
  IN IF ~UrlParses(url)
     THEN handleError(s1, "fail to prepare forwarded request", StatusBadGateway)
     ELSE [s1 EXCEPT !.pc = "send",
                     !.proxyReq = [method |-> s.req.method, url |-> url,
                                   header |-> CopyHeader(s.req.header),
                                   body |-> s.body, pos |-> 0]]

\* lines 116..120 with the outbound request built over req.Body itself, so
\* that sending it drains the reader next will get
ServeDoSharedReader(s, err, v) ==
  LET s1 == [s EXCEPT !.sent = @ + 1] IN
  IF err
  THEN handleError(s1, "fail to send HTTP request to modsec", StatusBadGateway)
  ELSE [s1 EXCEPT !.pc = "arbitrate", !.resp = v, !.proxyReq.pos = Len(s.proxyReq.body),
                  !.bufPos = Len(s.body)]

\* lines 116..120: Do fails (err = TRUE) or returns the verdict v
ServeDo(s, err, v) ==
  LET s1 == [s EXCEPT !.sent = @ + 1] IN
  IF err
  THEN handleError(s1, "fail to send HTTP request to modsec", StatusBadGateway)
  ELSE [s1 EXCEPT !.pc = "arbitrate", !.resp = v, !.proxyReq.pos = Len(s.proxyReq.body)]

\* lines 123..134 with ignore500Error applied to every status from 400 on
ServeArbitrateIgnore4xx(s, order) ==
  LET s1 == IF s.resp.status >= 500
            THEN [s EXCEPT !.log = @ \o <<"OWASP 500 error. Request", "OWASP 500 error. Response">>]
            ELSE s
  IN IF s.resp.status >= 400 /\ ~gate.ignore500Error
     THEN GateWrites([s1 EXCEPT !.pc = "done"], ForwardResponseCalls(s.resp, order))
     ELSE CallNext(s1, 134)

\* lines 123..134 with ignore500Error never consulted
ServeArbitrateAlwaysRelay(s, order) ==
  LET s1 == IF s.resp.status >= 500
            THEN [s EXCEPT !.log = @ \o <<"OWASP 500 error. Request", "OWASP 500 error. Response">>]
            ELSE s
  IN IF s.resp.status >= 400
     THEN GateWrites([s1 EXCEPT !.pc = "done"], ForwardResponseCalls(s.resp, order))
     ELSE CallNext(s1, 134)

\* lines 123..134 with the two log lines moved into the relay branch
ServeArbitrateLogOnBlock(s, order) ==
  LET s1 == [s EXCEPT !.log = @ \o <<"OWASP 500 error. Request", "OWASP 500 error. Response">>]
  IN IF s.resp.status >= 400 /\ (s.resp.status < 500 \/ ~gate.ignore500Error)
     THEN GateWrites([(IF s.resp.status >= 500 THEN s1 ELSE s) EXCEPT !.pc = "done"],
                     ForwardResponseCalls(s.resp, order))
     ELSE CallNext(s, 134)

\* lines 123..134
ServeArbitrate(s, order) ==
  LET s1 == IF s.resp.status >= 500
            THEN [s EXCEPT !.log = @ \o <<"OWASP 500 error. Request", "OWASP 500 error. Response">>]
            ELSE s
  IN IF s.resp.status >= 400 /\ (s.resp.status < 500 \/ ~gate.ignore500Error)
     THEN GateWrites([s1 EXCEPT !.pc = "done"], ForwardResponseCalls(s.resp, order))
     ELSE CallNext(s1, 134)

\* the upstream handler at work: it reads k more bytes of req.Body and, when
\* `writes`, answers on rw
Upstream(s, k, writes) ==
  LET s1 == IF s.reqBody = "orig" THEN [s EXCEPT !.origPos = @ + k]
                                   ELSE [s EXCEPT !.bufPos = @ + k]
  IN IF writes THEN [s1 EXCEPT !.rw = ApplyCalls(@, UpstreamCalls)] ELSE s1

\* next.ServeHTTP returns: ServeHTTP returns (from the deferred function as well)
NextReturned(s, k, writes) == [Upstream(s, k, writes) EXCEPT !.pc = "done"]

\* next.ServeHTTP panics: recovered by the deferred function, unless it is the
\* deferred function that made the call
NextPanicked(s, k, writes) ==
  LET s1 == Upstream(s, k, writes)
  IN IF s.recovering THEN [s1 EXCEPT !.pc = "escaped"] ELSE Recovered(s1)

\* ---------------------------------------------------------------- actions
Start(r) == pc[r] = "start" /\ Put(r, ServeStart(St(r)))

Capture(r) == pc[r] = "capture" /\ Put(r, ServeCapture(St(r)))

Prepare(r) == pc[r] = "prepare" /\ Put(r, ServePrepare(St(r)))

DoFails(r) ==
  /\ pc[r] = "send"
  /\ TransportFailure \in service[r]
  /\ Put(r, ServeDo(St(r), TRUE, NoResponse))

DoReturns(r) ==
  /\ pc[r] = "send"
  /\ \E v \in service[r] \ {TransportFailure} : Put(r, ServeDo(St(r), FALSE, v))

Arbitrate(r) ==
  /\ pc[r] = "arbitrate"
  /\ \E order \in MapOrders(resp[r].header) : Put(r, ServeArbitrate(St(r), order))

NextReturns(r) ==
  /\ pc[r] = "next"
  /\ \E k \in 0..Len(Unread(St(r))), writes \in BOOLEAN : Put(r, NextReturned(St(r), k, writes))

NextPanics(r) ==
  /\ pc[r] = "next"
  /\ \E k \in 0..Len(Unread(St(r))), writes \in BOOLEAN : Put(r, NextPanicked(St(r), k, writes))

Next ==
  \/ \E r \in Requests : Start(r)
  \/ \E r \in Requests : Capture(r)
  \/ \E r \in Requests : Prepare(r)
  \/ \E r \in Requests : DoFails(r)
  \/ \E r \in Requests : DoReturns(r)
  \/ \E r \in Requests : Arbitrate(r)
  \/ \E r \in Requests : NextReturns(r)
  \/ \E r \in Requests : NextPanics(r)

Spec == Init /\ [][Next]_vars

\* the steps of one invocation
Step(r) ==
  \/ Start(r) \/ Capture(r) \/ Prepare(r) \/ DoFails(r) \/ DoReturns(r)
  \/ Arbitrate(r) \/ NextReturns(r) \/ NextPanics(r)

\* an invocation that can take a step takes one: the goroutine is scheduled,
\* the read of the inbound body and the upstream handler come to an end, and
\* Do returns at the latest when the Timeout of httpClient (line 18) expires
Fairness == \A r \in Requests : WF_vars(Step(r))

SpecLive == Spec /\ Fairness

SpecConc == InitConc /\ [][Next]_vars

\* ------------------------------------------------------- reading the state
\* the request of r carries an Upgrade value that is exactly "websocket"
Websocket(r) ==
  /\ "Upgrade" \in DOMAIN req[r].header
  /\ \E i \in DOMAIN req[r].header["Upgrade"] : req[r].header["Upgrade"][i] = "websocket"

Original(r) == req[r].stream.bytes

BodySize(r) == Len(Original(r))

\* the status codes the gate passed to WriteHeader, in order
GateCodes(r) ==
  LET ws == SelectSeq(gateW[r], LAMBDA c : c.op = "WriteHeader")
  IN [i \in DOMAIN ws |-> ws[i].code]

RECURSIVE ConcatData(_)
ConcatData(cs) == IF cs = <<>> THEN <<>> ELSE Head(cs).data \o ConcatData(Tail(cs))

\* the body bytes the gate wrote, in order
GateBytes(r) == ConcatData(SelectSeq(gateW[r], LAMBDA c : c.op = "Write"))

\* the verdict of r is in and lines 123..134 have run on it
Arbitrated(r) == resp[r] # NoResponse /\ pc[r] # "arbitrate"

\* the calls forwardResponse would make for the verdict of r, in any map order
RelayCalls(r) ==
  UNION {{ForwardResponseCalls(resp[r], o)[i] : i \in DOMAIN ForwardResponseCalls(resp[r], o)} :
           o \in MapOrders(resp[r].header)}

\* the verdict of r reached the client as it is: status, body
ClientGotVerdict(r) ==
  /\ rw[r].status = resp[r].status
  /\ rw[r].body = resp[r].body
  /\ GateCodes(r) = <<resp[r].status>>
  /\ GateBytes(r) = resp[r].body

\* ------------------------------------------------------------------ claims

\* C1: a verdict with a status in [400,500) is relayed under every value of
\* ignore500Error and interruptOnError: the client gets exactly the verdict's
\* status and body bytes, and next is never invoked for that request.
C1_BlockIsRelayed ==
  \A r \in Requests :
    (~Websocket(r) /\ resp[r].status >= 400 /\ resp[r].status < 500) =>
      /\ calls[r] = <<>>
      /\ pc[r] \in {"arbitrate", "done"}
      /\ pc[r] = "done" => ClientGotVerdict(r)

C1_Witness ==
  \E r \in Requests :
    /\ pc[r] = "done" /\ resp[r].status = 403 /\ resp[r].body # <<>>
    /\ gate.ignore500Error /\ ~gate.interruptOnError
    /\ rw[r].status = 403 /\ rw[r].body = resp[r].body

C3_OversizedBody ==
  \A r \in Requests :
    (~Websocket(r) /\ BodySize(r) > gate.maxBodySize /\ pc[r] \notin {"idle", "start", "capture"}) =>
      /\ sent[r] = 0
      /\ proxyReq[r] = NoRequest
      /\ IF gate.interruptOnError
         THEN /\ pc[r] = "done"
              /\ rw[r].status = StatusRequestEntityTooLarge
              /\ calls[r] = <<>>
         ELSE calls[r] # <<>>

C3_Witness ==
  \E r \in Requests :
    /\ BodySize(r) = gate.maxBodySize + 1 /\ ~Websocket(r)
    /\ gate.interruptOnError /\ pc[r] = "done"
    /\ rw[r].status = StatusRequestEntityTooLarge /\ sent[r] = 0

\* C4: a verdict of 500 or above: with ignore500Error false it is relayed like
\* a [400,500) verdict and next is never invoked; with ignore500Error true
\* next is invoked with the re-readable original body and nothing of the
\* verdict response is written to the client; for both values of
\* interruptOnError.
C4_ServerErrorVerdict ==
  \A r \in Requests :
    (~Websocket(r) /\ resp[r].status >= 500 /\ Arbitrated(r)) =>
      IF ~gate.ignore500Error
      THEN /\ calls[r] = <<>>
           /\ pc[r] = "done"
           /\ ClientGotVerdict(r)
      ELSE /\ calls[r] # <<>>
           /\ calls[r][1].site = 134
           /\ calls[r][1].body = Original(r)
           /\ \A i \in DOMAIN gateW[r] : gateW[r][i] \notin RelayCalls(r)

C4_Witness ==
  \E r \in Requests :
    /\ resp[r].status = 503 /\ gate.ignore500Error /\ gate.interruptOnError
    /\ pc[r] = "done" /\ ~recovering[r]
    /\ Len(calls[r]) = 1 /\ calls[r][1].body = Original(r) /\ Original(r) # <<>>
    /\ gateW[r] = <<>>

\* C5: a request with an Upgrade value "websocket": the decision service is
\* never contacted, the gate does not read the body, and next is invoked
\* directly with the untouched request; under every configuration.
C5_WebsocketBypass ==
  \A r \in Requests :
    (Websocket(r) /\ pc[r] \notin {"idle", "start"}) =>
      /\ sent[r] = 0
      /\ proxyReq[r] = NoRequest
      /\ gateRead[r] = 0
      /\ reqBody[r] = "orig"
      /\ calls[r] # <<>>
      /\ calls[r][1].site = 80
      /\ calls[r][1].body = Original(r)

C5_Witness ==
  \E r \in Requests :
    /\ Websocket(r) /\ pc[r] = "done" /\ BodySize(r) > gate.maxBodySize
    /\ Len(calls[r]) = 1 /\ calls[r][1].site = 80 /\ calls[r][1].body = Original(r)
    /\ sent[r] = 0 /\ gateRead[r] = 0

\* the gate went through the error policy with a 502-class failure: a body
\* read error, a request that could not be built, a failed verdict call or a
\* recovered panic
Failures502 ==
  {"fail to read incoming request", "fail to prepare forwarded request",
   "fail to send HTTP request to modsec", "Panic"}

Failed502(r) == \E i \in DOMAIN log[r] : log[r][i] \in Failures502

\* next was invoked by handleError
PolicyCalledNext(r) == \E i \in DOMAIN calls[r] : calls[r][i].site = 167

C7_NoFaultEscapes == \A r \in Requests : pc[r] # "escaped"

\* C8: when the gate fails open, next gets the request as an uninspected one
\* would arrive: its body reads like the original from the start (stated here
\* for a body that arrives whole and a fail-open call that is the first call).
C8_FailOpenUntouched ==
  \A r \in Requests :
    (~gate.interruptOnError /\ req[r].stream.end = "EOF"
       /\ calls[r] # <<>> /\ calls[r][1].site = 167) =>
      calls[r][1].body = Original(r)

\* the verdict of r was relayed
Blocked(r) == pc[r] = "done" /\ resp[r].status >= 400 /\ calls[r] = <<>>

\* C9: when a verdict is relayed, every header name of the verdict response is
\* on the client response with one value, the last listed for that name; the
\* headers are set before the status is written and the status before the body.
C9_RelayedHeaders ==
  \A r \in Requests :
    Blocked(r) =>
      /\ \A k \in DOMAIN resp[r].header :
           /\ k \in DOMAIN rw[r].sent
           /\ rw[r].sent[k] = <<resp[r].header[k][Len(resp[r].header[k])]>>
      /\ \A i, j \in DOMAIN gateW[r] :
           /\ (gateW[r][i].op = "Set" /\ gateW[r][j].op = "WriteHeader") => i < j
           /\ (gateW[r][i].op = "WriteHeader" /\ gateW[r][j].op = "Write") => i < j

C9_Witness ==
  \E r \in Requests :
    /\ Blocked(r) /\ resp[r].body # <<>>
    /\ "Via" \in DOMAIN resp[r].header /\ Len(resp[r].header["Via"]) = 2
    /\ rw[r].sent = [Server |-> <<"waf">>, Via |-> <<"b">>]
    /\ rw[r].status = resp[r].status

\* C10: the outbound request mirrors the inbound one: same method, target the
\* base URL followed by the raw request URI, exactly the inbound header names
\* with the same values in the same order, body the captured bytes; sending it
\* leaves the body next will read unread.
C10_MirroredRequest ==
  \A r \in Requests :
    sent[r] >= 1 =>
      /\ proxyReq[r].method = req[r].method
      /\ proxyReq[r].url = <<gate.modSecurityUrl, req[r].requestURI>>
      /\ DOMAIN proxyReq[r].header = DOMAIN req[r].header
      /\ \A k \in DOMAIN req[r].header : proxyReq[r].header[k] = req[r].header[k]
      /\ proxyReq[r].body = body[r]
      /\ body[r] = Original(r)
      /\ pc[r] = "arbitrate" => Unread(St(r)) = body[r]
      /\ calls[r] # <<>> => calls[r][1].body = body[r]

C10_Witness ==
  \E r \in Requests :
    /\ pc[r] = "done" /\ sent[r] = 1 /\ resp[r].status = 200
    /\ req[r].method = "POST" /\ proxyReq[r].method = "POST"
    /\ proxyReq[r].header = [Cookie |-> <<"b", "a", "b">>, Accept |-> <<"x">>]
    /\ Len(body[r]) = 2 /\ proxyReq[r].pos = 2
    /\ Len(calls[r]) = 1 /\ calls[r][1].body = body[r]

\* the gate answered with an error status of its own (http.Error)
GateWroteError(r) ==
  \E i \in DOMAIN GateCodes(r) :
    GateCodes(r)[i] \in {StatusRequestEntityTooLarge, StatusBadGateway}
      /\ (resp[r] = NoResponse \/ recovering[r] \/ GateCodes(r)[i] # resp[r].status)

\* C11: in interrupt mode the error response of the gate (413 or 502) has an
\* empty body: the gate writes no body byte with it.
C11_ErrorBodyEmpty ==
  \A r \in Requests :
    (gate.interruptOnError /\ GateWroteError(r)) => GateBytes(r) = <<>>

\* the verdict of r was relayed to the client and next was not invoked
Relayed(r) ==
  /\ resp[r] # NoResponse /\ ~recovering[r] /\ calls[r] = <<>>
  /\ GateCodes(r) = <<resp[r].status>>

\* the outcome classes the invocation of r went through: allow = upstream
\* invoked, block = verdict relayed, error = error status written
OutcomeClasses(r) ==
  {c \in {"allow"} : calls[r] # <<>>}
    \cup {c \in {"block"} : Relayed(r)}
    \cup {c \in {"error"} : GateWroteError(r)}

\* what the gate decided for r, its first act on the request: the upstream
\* invoked, the verdict relayed or an error status written; "none" before
Decision(r) ==
  IF calls[r] # <<>> THEN "allow"
  ELSE IF GateWroteError(r) THEN "error"
  ELSE IF Relayed(r) THEN "block"
  ELSE "none"

\* ServeHTTP of r is over, by returning or by a panic that left it
Over(r) == pc[r] \in {"done", "escaped"}

\* r1 and r2 carry the same request and the decision service has the same one
\* answer (a verdict or a transport failure) for both
Alike(r1, r2) ==
  /\ pc[r1] # "idle" /\ pc[r2] # "idle"
  /\ req[r1] = req[r2]
  /\ service[r1] = service[r2] /\ Cardinality(service[r1]) = 1

C13_FailClosed ==
  \A r \in Requests :
    (gate.interruptOnError /\ ~gate.ignore500Error /\ ~Websocket(r) /\ calls[r] # <<>>) =>
      /\ sent[r] >= 1
      /\ resp[r] # NoResponse
      /\ resp[r].status < 400
      /\ \A i \in DOMAIN calls[r] : calls[r][i].site = 134

C13_Witness ==
  \E r \in Requests :
    /\ gate.interruptOnError /\ ~gate.ignore500Error /\ ~Websocket(r)
    /\ pc[r] = "done" /\ Len(calls[r]) = 1 /\ sent[r] = 1 /\ resp[r].status = 399

\* C14: single terminal outcome: during one ServeHTTP invocation next is
\* invoked at most once, and the gate never both invokes next and writes a
\* response of its own, whatever the configuration and the fault.
C14_SingleOutcome ==
  \A r \in Requests :
    /\ Len(calls[r]) <= 1
    /\ ~(calls[r] # <<>> /\ gateW[r] # <<>>)

\* ServeHTTP of r returned with one of its outcomes: next was invoked and
\* returned, the verdict was relayed, or an error status was written
TerminalOutcome(r) ==
  /\ pc[r] = "done"
  /\ \/ calls[r] # <<>>
     \/ GateCodes(r) # <<>>

\* C15: every ServeHTTP invocation eventually ends in a terminal outcome
\* (next invoked and returned, verdict relayed, error status written), the
\* verdict call being bounded by the timeout.  Under Fairness an invocation
\* goes on as long as it has a step to take, so the claim is that an
\* invocation with no step left has reached a terminal outcome.
C15_Terminates ==
  \A r \in Requests : (pc[r] # "idle" /\ ~ENABLED Step(r)) => TerminalOutcome(r)

\* handleError ran for r
PolicyRan(r) == \E i \in DOMAIN log[r] : log[r][i] = "ModSecurity::handleError Request"

\* the verdict of r is one lines 123..134 let pass
AllowVerdict(r) ==
  /\ resp[r] # NoResponse
  /\ resp[r].status < 400 \/ (resp[r].status >= 500 /\ gate.ignore500Error)

\* C16: pipeline order for a non-websocket request: the decision service is
\* contacted at most once and only after the inbound body was captured whole
\* within the limit; off the failure path next is invoked only after a verdict
\* was received and arbitrated as allow; nothing is relayed and next is not
\* called before the verdict status is known.
C16_PipelineOrder ==
  \A r \in Requests :
    ~Websocket(r) =>
      /\ sent[r] <= 1
      /\ pc[r] \in {"send", "arbitrate"} \/ sent[r] >= 1 =>
           /\ req[r].stream.end = "EOF"
           /\ BodySize(r) <= gate.maxBodySize
           /\ gateRead[r] = BodySize(r)
           /\ body[r] = Original(r)
      /\ resp[r] # NoResponse => sent[r] = 1
      /\ ~PolicyRan(r) =>
           /\ calls[r] # <<>> => (AllowVerdict(r) /\ pc[r] # "arbitrate" /\ calls[r][1].site = 134)
           /\ gateW[r] # <<>> => (resp[r] # NoResponse /\ ~AllowVerdict(r) /\ pc[r] = "done")
      /\ resp[r] = NoResponse =>
           /\ \A i \in DOMAIN calls[r] : calls[r][i].site = 167
           /\ \A i \in DOMAIN gateW[r] : gateW[r][i] \in
                {HttpErrorCalls(<<>>, c)[j] :
                   c \in {StatusRequestEntityTooLarge, StatusBadGateway}, j \in 1..5}

C16_Witness ==
  \E r \in Requests :
    /\ ~Websocket(r) /\ pc[r] = "done" /\ ~PolicyRan(r)
    /\ sent[r] = 1 /\ resp[r].status = 200 /\ BodySize(r) = gate.maxBodySize
    /\ Len(calls[r]) = 1 /\ calls[r][1].site = 134 /\ gateW[r] = <<>>

OwaspLog == <<"OWASP 500 error. Request", "OWASP 500 error. Response">>

\* the messages handleError is called with
ErrorMessages == Failures502 \cup {"body max limit reached"}

\* how many entries of the log of r are the line e
LogCount(r, e) == Cardinality({i \in DOMAIN log[r] : log[r][i] = e})

\* every entry of the log of r from position n on is one run of handleError:
\* the message, the request, then the branch taken
PolicyLog(r, n) ==
  /\ (Len(log[r]) - n + 1) % 3 = 0
  /\ \A i \in n..Len(log[r]) :
       CASE (i - n) % 3 = 0 -> log[r][i] \in ErrorMessages
         [] (i - n) % 3 = 1 -> log[r][i] = "ModSecurity::handleError Request"
         [] OTHER ->
              log[r][i] = IF gate.interruptOnError THEN "ModSecurity::handleError [Interrupt]"
                                                   ELSE "ModSecurity::handleError [Continue]"

\* the one answer the decision service has for r
Own(r) == CHOOSE v \in service[r] : TRUE

\* the decision lines 79..134 take for r, from its request, its own verdict
\* and the configuration
ExpectedDecision(r) ==
  LET onError == IF gate.interruptOnError THEN "error" ELSE "allow" IN
  IF Websocket(r) THEN "allow"
  ELSE IF BodySize(r) > gate.maxBodySize \/ req[r].stream.end # "EOF" THEN onError
  ELSE IF ~UrlParses(<<gate.modSecurityUrl, req[r].requestURI>>) THEN onError
  ELSE IF Own(r) = TransportFailure THEN onError
  ELSE IF Own(r).status < 400 \/ (Own(r).status >= 500 /\ gate.ignore500Error) THEN "allow"
  ELSE "block"

\* the body the first invocation of next can read, from the request of r and
\* the configuration
ExpectedBody(r) ==
  IF Websocket(r) THEN Original(r)
  ELSE IF BodySize(r) > gate.maxBodySize
       THEN SubSeq(Original(r), gate.maxBodySize + 2, BodySize(r))
  ELSE IF req[r].stream.end # "EOF" THEN <<>>
  ELSE Original(r)

\* what the invocation of r holds and did follows from its own request, its
\* own verdict and the configuration
OwnInputsOnly(r) ==
  /\ resp[r] \in {NoResponse} \cup (service[r] \ {TransportFailure})
  /\ Len(body[r]) <= BodySize(r) /\ body[r] = SubSeq(Original(r), 1, Len(body[r]))
  /\ proxyReq[r] # NoRequest =>
       /\ proxyReq[r].method = req[r].method
       /\ proxyReq[r].url = <<gate.modSecurityUrl, req[r].requestURI>>
       /\ proxyReq[r].header = req[r].header
       /\ proxyReq[r].body = Original(r)
  /\ Decision(r) \in {"none", ExpectedDecision(r)}
  /\ Over(r) => Decision(r) = ExpectedDecision(r)
  /\ calls[r] # <<>> => calls[r][1].body = ExpectedBody(r)
  /\ Relayed(r) => (rw[r].status = Own(r).status /\ rw[r].body = Own(r).body)

\* C17: concurrent invocations on one gate instance are independent: in every
\* interleaving of the steps of several requests in flight, the outcome of
\* each request and the body its upstream sees depend only on that request, its
\* own verdict and the configuration; the fields of the gate are never written
\* after New returned.
C17_Independent ==
  /\ [](\A r \in Requests : (pc[r] # "idle" /\ Cardinality(service[r]) = 1) => OwnInputsOnly(r))
  /\ [][gate' = gate]_vars

C17_Witness ==
  /\ Alike(1, 2) /\ service[3] # service[1]
  /\ Over(1) /\ Decision(1) = "block" /\ rw[1].status = 403
  /\ pc[2] = "send"
  /\ Over(3) /\ Decision(3) = "allow" /\ resp[3].status = StatusOK
  /\ BodySize(3) = 1 /\ calls[3][1].body = Original(3)

\* C18: a verdict of 500 or above is logged (request and response) whether it
\* ends in block or in allow; a verdict in [400,500) and an allow below 400
\* log nothing; every run of the error policy logs the error message and the
\* request before it interrupts or continues.
C18_Logging ==
  \A r \in Requests :
    /\ (Arbitrated(r) /\ resp[r].status >= 500) =>
         /\ Len(log[r]) >= 2
         /\ SubSeq(log[r], 1, 2) = OwaspLog
         /\ PolicyLog(r, 3)
    /\ (Arbitrated(r) /\ resp[r].status < 500) =>
         /\ PolicyLog(r, 1)
         /\ ~recovering[r] => log[r] = <<>>
    /\ ~Arbitrated(r) => PolicyLog(r, 1)
    /\ LogCount(r, "ModSecurity::handleError [Continue]") =
         Cardinality({i \in DOMAIN calls[r] : calls[r][i].site = 167})
    /\ LogCount(r, "ModSecurity::handleError [Interrupt]") =
         Cardinality({i \in DOMAIN gateW[r] :
                        gateW[r][i].op = "WriteHeader" /\ gateW[r][i].code # resp[r].status})

C18_Witness ==
  \E r \in Requests :
    /\ pc[r] = "done" /\ resp[r].status = 503 /\ gate.ignore500Error
    /\ Len(calls[r]) = 1 /\ calls[r][1].site = 134
    /\ log[r] = OwaspLog

\* the gate read the inbound body of r through the limited reader
Captured(r) ==
  gateRead[r] = IF BodySize(r) > gate.maxBodySize THEN gate.maxBodySize + 1 ELSE BodySize(r)

\* C19 as stated: isWebsocket is true exactly when some Upgrade value equals
\* "websocket"; a request without such a value is never forwarded to next
\* without having gone through body capture and the verdict request.
C19_NoForwardWithoutVerdict ==
  \A r \in Requests :
    /\ isWebsocket(req[r]) <=> Websocket(r)
    /\ (~Websocket(r) /\ calls[r] # <<>>) => (Captured(r) /\ sent[r] >= 1)

\* C19 amended: isWebsocket is true exactly when some Upgrade value equals
\* "websocket" (case-sensitive, whole value); a request without such a value
\* never takes the bypass of line 80: it always goes through body capture,
\* and next gets it only after the verdict request or, in continue mode,
\* from the error policy (fail open), possibly with no verdict request made.
C19_BypassOnlyOnExactMatch ==
  \A r \in Requests :
    /\ isWebsocket(req[r]) <=> Websocket(r)
    /\ (~Websocket(r) /\ pc[r] \notin {"idle", "start"}) =>
         /\ pc[r] # "capture" => Captured(r)
         /\ \A i \in DOMAIN calls[r] :
              /\ calls[r][i].site # 80
              /\ calls[r][i].site = 134 => sent[r] = 1
              /\ calls[r][i].site = 167 => ~gate.interruptOnError

C19_Witness ==
  \E r \in Requests :
    /\ req[r].header = [Upgrade |-> <<"WebSocket">>] /\ ~isWebsocket(req[r])
    /\ pc[r] = "done" /\ BodySize(r) > 0 /\ Captured(r) /\ sent[r] = 1
    /\ Len(calls[r]) = 1 /\ calls[r][1].site = 134

====
